---- MODULE Spec2Model ----
(***************************************************************************)
(* A model of cosfs.base.BaseCOSFileSystem: the path codec                  *)
(* (_strip_protocol, split_path), the listing cache (invalidate_cache),    *)
(* the argument checks of find and of bulk delete, and touch.               *)
(*                                                                         *)
(* A Python str is modelled as a sequence of one-character strings, so     *)
(* that slicing, stripping and splitting are computed as Python computes    *)
(* them.  The listing cache (dircache) is a function from its keys to the   *)
(* cached listing; dict.pop(k, None) restricts its domain.                  *)
(***************************************************************************)
EXTENDS Naturals, Sequences, FiniteSets, TLC

VARIABLES
    dircache,   \* self.dircache: normalised directory path -> cached listing
    store,      \* the object store: the set of object paths that exist
    last,       \* the last call of the sequential caller: its arguments and outcome
    toucher,    \* a caller inside touch(): its position and what it has read
    lister      \* a caller inside a listing: its position and what it has read

vars == <<dircache, store, last, toucher, lister>>

----------------------------------------------------------------------------
(* Strings *)

Slash == "/"

\* "cos://", the scheme prefix tested at base.py:131
Protocol == <<"c", "o", "s", ":", "/", "/">>

\* "?versionId=", the qualifier of the split_path docstring and of the path syntax
VersionTag == <<"?", "v", "e", "r", "s", "i", "o", "n", "I", "d", "=">>

\* The number of leading characters the slice path_string[5:] drops
ProtocolCut == 5

\* AbstractFileSystem.root_marker, the empty string
root_marker == <<>>

\* Python's None, where an optional int is expected: <<>> is None and <<n>> is n
None == <<>>

\* The empty listing cache
EmptyCache == <<>>

\* The store without objects
EmptyStore == <<>>

\* str.startswith
StartsWith(s, p) == Len(s) >= Len(p) /\ SubSeq(s, 1, Len(p)) = p

\* c in s
Contains(s, c) == \E i \in 1..Len(s) : s[i] = c

\* s[n:]
DropFirst(s, n) == SubSeq(s, n + 1, Len(s))

\* s.lstrip("/")
RECURSIVE lstrip(_)
lstrip(s) == IF s # <<>> /\ s[1] = Slash THEN lstrip(Tail(s)) ELSE s

\* The index of the first "/" of s (s holds one)
FirstSlash(s) == CHOOSE i \in 1..Len(s) : s[i] = Slash /\ \A j \in 1..(i - 1) : s[j] # Slash

\* The index of the last "/" of s (s holds one)
LastSlash(s) == CHOOSE i \in 1..Len(s) : s[i] = Slash /\ \A j \in (i + 1)..Len(s) : s[j] # Slash

----------------------------------------------------------------------------
(* PathCodec *)

\* A plausible slip: the slice drops the whole six-character prefix
strip_protocol_cut6(path) ==
    LET path_string == IF StartsWith(path, Protocol) THEN DropFirst(path, Len(Protocol)) ELSE path
    IN  IF path_string = <<>> THEN root_marker ELSE path_string

\* _strip_protocol on a str: "cos://" is cut by path_string[5:], which keeps one "/"
_strip_protocol(path) ==
    LET path_string == IF StartsWith(path, Protocol) THEN DropFirst(path, ProtocolCut) ELSE path
    IN  IF path_string = <<>> THEN root_marker ELSE path_string

\* _strip_protocol on a list: element-wise
strip_protocol_list(paths) == [i \in DOMAIN paths |-> _strip_protocol(paths[i])]

\* A plausible slip: rsplit in place of split
split_path_rsplit(path) ==
    LET p == lstrip(_strip_protocol(path))
    IN  IF ~Contains(p, Slash) THEN <<p, <<>>>>
        ELSE <<SubSeq(p, 1, LastSlash(p) - 1), DropFirst(p, LastSlash(p))>>

\* split_path: strip, trim leading "/", split on the first "/"; always a pair
split_path(path) ==
    LET p == lstrip(_strip_protocol(path))
    IN  IF ~Contains(p, Slash) THEN <<p, <<>>>>
        ELSE <<SubSeq(p, 1, FirstSlash(p) - 1), DropFirst(p, FirstSlash(p))>>

\* AbstractFileSystem._parent: everything before the last "/", or the root marker
_parent(path) ==
    LET p == _strip_protocol(path)
    IN  IF Contains(p, Slash) THEN root_marker \o SubSeq(p, 1, LastSlash(p) - 1)
        ELSE root_marker

----------------------------------------------------------------------------
(* validateFind *)

\* Python truthiness of maxdepth (None and 0 are falsy) and of a str
TruthyInt(n) == n # None /\ n[1] # 0
TruthyStr(s) == s # <<>>

\* _verify_find_arguments: the outcome and, on success, the returned path
_verify_find_arguments(path, maxdepth, withdirs, prefix) ==
    LET p == _strip_protocol(path)
        bucket == split_path(p)[1]
    IN  IF ~TruthyStr(bucket) THEN [outcome |-> "ValueError"]
        ELSE IF (withdirs \/ TruthyInt(maxdepth)) /\ TruthyStr(prefix)
             THEN [outcome |-> "ValueError"]
             ELSE [outcome |-> "ok", value |-> p]

----------------------------------------------------------------------------
(* Inputs of the path codec: strings built from at most MaxTok tokens *)

MaxTok == 6

Tokens == {Protocol, <<Slash>>, <<"a">>, <<"b">>, VersionTag}

RECURSIVE TokStrings(_)
TokStrings(n) ==
    IF n = 0 THEN {<<>>}
    ELSE LET shorter == TokStrings(n - 1)
         IN  shorter \cup {s \o t : s \in shorter, t \in Tokens}

PathInputs == TokStrings(MaxTok)

\* The maxdepth, withdirs and prefix arguments tried
MaxDepthArg == 2
DepthArgs == {None} \cup {<<n>> : n \in 0..MaxDepthArg}
PrefixArgs == {<<>>, <<"a">>}

\* Lists of paths handed to _strip_protocol
ListInputs == {<<p, q>> : p \in {<<>>, Protocol, Protocol \o <<"a">>, <<Slash, "a">>},
                          q \in {Protocol \o Protocol, <<"a", Slash, "b">>}}

NoCaller == [pc |-> "idle"]

InitPath ==
    /\ dircache = EmptyCache
    /\ store = EmptyStore
    /\ toucher = NoCaller
    /\ lister = NoCaller
    /\ \E p \in PathInputs : last = [op |-> "input", path |-> p]

\* _strip_protocol(path)
StripProtocol ==
    /\ last.op = "input"
    /\ last' = [op |-> "strip", path |-> last.path, out |-> _strip_protocol(last.path)]
    /\ UNCHANGED <<dircache, store, toucher, lister>>

\* _strip_protocol applied to its own result
StripProtocolAgain ==
    /\ last.op = "strip"
    /\ last' = [op |-> "strip2", orig |-> last.path, path |-> last.out,
                 out |-> _strip_protocol(last.out)]
    /\ UNCHANGED <<dircache, store, toucher, lister>>

\* _strip_protocol([p, q])
StripProtocolList ==
    /\ last.op = "input"
    /\ \E l \in ListInputs :
          last' = [op |-> "striplist", path |-> l, out |-> strip_protocol_list(l)]
    /\ UNCHANGED <<dircache, store, toucher, lister>>

\* _strip_protocol applied to the list it returned
StripProtocolListAgain ==
    /\ last.op = "striplist"
    /\ last' = [op |-> "striplist2", orig |-> last.path, path |-> last.out,
                 out |-> strip_protocol_list(last.out)]
    /\ UNCHANGED <<dircache, store, toucher, lister>>

\* split_path(path)
SplitPath ==
    /\ last.op = "input"
    /\ last' = [op |-> "split", path |-> last.path, out |-> split_path(last.path)]
    /\ UNCHANGED <<dircache, store, toucher, lister>>

\* _verify_find_arguments(path, maxdepth, withdirs, prefix)
VerifyFind ==
    /\ last.op = "input"
    /\ \E maxdepth \in DepthArgs, withdirs \in BOOLEAN, prefix \in PrefixArgs :
          last' = [op |-> "find", path |-> last.path, maxdepth |-> maxdepth,
                   withdirs |-> withdirs, prefix |-> prefix,
                   out |-> _verify_find_arguments(last.path, maxdepth, withdirs, prefix)]
    /\ UNCHANGED <<dircache, store, toucher, lister>>

NextPath ==
    \/ StripProtocol
    \/ StripProtocolAgain
    \/ StripProtocolList
    \/ StripProtocolListAgain
    \/ SplitPath
    \/ VerifyFind

SpecPath == InitPath /\ [][NextPath]_vars

----------------------------------------------------------------------------
(* Properties of the path codec, under SpecPath *)

\* C9: _strip_protocol is idempotent: applied to its own result it returns that
\* result, for a str and, element by element, for a list.
StripProtocolIdempotent ==
    (last.op \in {"strip2", "striplist2"}) => last.out = last.path

\* "cos://cos://a" has been stripped twice: the first call cut a prefix and left
\* "/cos://a", which the second call returned as it is
StripProtocolTwiceReached ==
    /\ last.op = "strip2"
    /\ last.orig = Protocol \o Protocol \o <<"a">>
    /\ last.path = <<Slash>> \o Protocol \o <<"a">>
    /\ last.out = last.path

\* The protocol-stripped, left-trimmed input of a split_path call
NormOf(path) == lstrip(_strip_protocol(path))

\* C6 (as first stated): the bucket holds no "/" and the key does not start with "/".
SplitPathKeyNeverStartsWithSlash ==
    last.op = "split" =>
        /\ ~Contains(last.out[1], Slash)
        /\ (last.out[2] = <<>> \/ last.out[2][1] # Slash)

\* C6 (amended): split_path returns a pair; the bucket holds no "/"; the stripped
\* and left-trimmed input is the bucket alone (key empty) when it holds no "/",
\* and bucket + "/" + key otherwise; so the key starts with "/" exactly when
\* the bucket is followed by "//".
SplitPathShape ==
    last.op = "split" =>
        LET bucket == last.out[1]
            key == last.out[2]
            norm == NormOf(last.path)
        IN  /\ Len(last.out) = 2
            /\ ~Contains(bucket, Slash)
            /\ IF Contains(norm, Slash) THEN norm = bucket \o <<Slash>> \o key
                                        ELSE norm = bucket /\ key = <<>>
            /\ (key # <<>> /\ key[1] = Slash) <=>
                   StartsWith(norm, bucket \o <<Slash, Slash>>)

\* split_path("cos://a/b/a") has returned ("a", "b/a")
SplitPathDeepReached ==
    /\ last.op = "split"
    /\ last.path = Protocol \o <<"a", Slash, "b", Slash, "a">>
    /\ last.out = << <<"a">>, <<"b", Slash, "a">> >>

\* The places where a key holds, after a non-empty name, "?versionId=" followed
\* by a non-empty id that runs to the end of the key
VersionSplits(key) ==
    {i \in 2..Len(key) :
        /\ i + Len(VersionTag) <= Len(key)
        /\ SubSeq(key, i, i + Len(VersionTag) - 1) = VersionTag
        /\ \A j \in (i + Len(VersionTag))..Len(key) : key[j] \notin {Slash, "?"}}

\* C7: when the key part ends with "?versionId=<id>", split_path returns the id
\* as a separate version component and the key without the qualifier.
SplitPathExtractsVersion ==
    last.op = "split" =>
        LET norm == NormOf(last.path)
            rawkey == IF Contains(norm, Slash) THEN DropFirst(norm, FirstSlash(norm)) ELSE <<>>
        IN  \A i \in VersionSplits(rawkey) :
                /\ Len(last.out) = 3
                /\ last.out[2] = SubSeq(rawkey, 1, i - 1)
                /\ last.out[3] = DropFirst(rawkey, i + Len(VersionTag) - 1)

\* C8: _verify_find_arguments fails with ValueError when the path has no bucket,
\* and when a non-empty prefix comes with withdirs=True or with any maxdepth
\* that was supplied; in every other case it returns the stripped path.
VerifyFindRejects ==
    last.op = "find" =>
        LET rejected == \/ NormOf(last.path) = <<>>
                        \/ /\ last.prefix # <<>>
                           /\ (last.withdirs \/ last.maxdepth # None)
        IN  IF rejected THEN last.out.outcome = "ValueError"
            ELSE last.out = [outcome |-> "ok", value |-> _strip_protocol(last.path)]

----------------------------------------------------------------------------
(* ListingCache *)

\* self.dircache.pop(key, None)
Pop(cache, key) == [k \in (DOMAIN cache) \ {key} |-> cache[k]]

\* while norm_path: pop(norm_path); norm_path = _parent(norm_path)
RECURSIVE InvalidateUp(_, _)
InvalidateUp(cache, norm_path) ==
    IF norm_path = <<>> THEN cache
    ELSE InvalidateUp(Pop(cache, norm_path), _parent(norm_path))

\* A plausible slip: the walk up the parents is left out
invalidate_cache_no_walk(cache, path) ==
    IF path = None THEN EmptyCache
    ELSE Pop(cache, lstrip(_strip_protocol(path[1])))

\* A plausible slip: every call clears the whole cache
invalidate_cache_clear(cache, path) == EmptyCache

\* invalidate_cache(path): path is None, or <<p>> for the str p
invalidate_cache(cache, path) ==
    IF path = None THEN EmptyCache
    ELSE LET norm_path == lstrip(_strip_protocol(path[1]))
         IN  InvalidateUp(Pop(cache, norm_path), norm_path)

----------------------------------------------------------------------------
(* BatchPlanner *)

\* The store's ceiling on one bulk delete
MaxBatch == 1000

\* for path in pathlist[lo..hi]: self.invalidate_cache(self._parent(path)),
\* left to right.  The range is halved to keep the evaluation shallow, and the
\* left half is computed before the right half starts (invalidating in an
\* empty cache leaves it empty).
RECURSIVE InvalidateParents(_, _, _, _)
InvalidateParents(cache, pathlist, lo, hi) ==
    IF lo > hi THEN cache
    ELSE IF lo = hi THEN invalidate_cache(cache, <<_parent(pathlist[lo])>>)
    ELSE LET mid == (lo + hi) \div 2
             left == InvalidateParents(cache, pathlist, lo, mid)
         IN  IF DOMAIN left = {} THEN left
             ELSE InvalidateParents(left, pathlist, mid + 1, hi)

\* A plausible slip: >= in place of > in the size check
batch_delete_off_by_one(cache, pathlist) ==
    LET buckets == {split_path(pathlist[i])[1] : i \in DOMAIN pathlist}
        key_list == [i \in DOMAIN pathlist |-> split_path(pathlist[i])[2]]
    IN  IF Cardinality(buckets) > 1 THEN [outcome |-> "ValueError", cache |-> cache]
        ELSE IF buckets = {} THEN [outcome |-> "KeyError", cache |-> cache]
        ELSE IF Len(pathlist) >= MaxBatch THEN [outcome |-> "ValueError", cache |-> cache]
        ELSE [outcome |-> "ok",
              cache |-> InvalidateParents(cache, pathlist, 1, Len(pathlist)),
              bucket |-> CHOOSE b \in buckets : TRUE,
              key_list |-> key_list]

\* A plausible slip: the loop stops after its first path
batch_delete_first_only(cache, pathlist) ==
    LET buckets == {split_path(pathlist[i])[1] : i \in DOMAIN pathlist}
        key_list == [i \in DOMAIN pathlist |-> split_path(pathlist[i])[2]]
    IN  IF Cardinality(buckets) > 1 THEN [outcome |-> "ValueError", cache |-> cache]
        ELSE IF buckets = {} THEN [outcome |-> "KeyError", cache |-> cache]
        ELSE IF Len(pathlist) > MaxBatch THEN [outcome |-> "ValueError", cache |-> cache]
        ELSE [outcome |-> "ok",
              cache |-> InvalidateParents(cache, pathlist, 1, 1),
              bucket |-> CHOOSE b \in buckets : TRUE,
              key_list |-> key_list]

\* _get_batch_delete_key_list: the outcome, the cache it leaves and, on success,
\* the bucket and the keys.  buckets.pop() on an empty set raises KeyError.
_get_batch_delete_key_list(cache, pathlist) ==
    LET buckets == {split_path(pathlist[i])[1] : i \in DOMAIN pathlist}
        key_list == [i \in DOMAIN pathlist |-> split_path(pathlist[i])[2]]
    IN  IF Cardinality(buckets) > 1 THEN [outcome |-> "ValueError", cache |-> cache]
        ELSE IF buckets = {} THEN [outcome |-> "KeyError", cache |-> cache]
        ELSE IF Len(pathlist) > MaxBatch THEN [outcome |-> "ValueError", cache |-> cache]
        ELSE [outcome |-> "ok",
              cache |-> InvalidateParents(cache, pathlist, 1, Len(pathlist)),
              bucket |-> CHOOSE b \in buckets : TRUE,
              key_list |-> key_list]

----------------------------------------------------------------------------
(* The store and the listings read from it *)

\* "x/y/z" from <<"x", "y", "z">>
RECURSIVE Join(_)
Join(comps) ==
    IF Len(comps) = 0 THEN <<>>
    ELSE IF Len(comps) = 1 THEN <<comps[1]>>
    ELSE <<comps[1], Slash>> \o Join(Tail(comps))

\* The entries one listing of directory dir returns: the paths of its immediate
\* children among the objects of st (a function from object path to size)
Children(st, dir) ==
    LET under == IF dir = <<>> THEN DOMAIN st
                 ELSE {o \in DOMAIN st : StartsWith(o, dir \o <<Slash>>)}
        skip == IF dir = <<>> THEN 0 ELSE Len(dir) + 1
        child(o) == LET rest == DropFirst(o, skip)
                    IN  IF Contains(rest, Slash)
                        THEN SubSeq(o, 1, skip + FirstSlash(rest) - 1)
                        ELSE o
    IN  {child(o) : o \in under}

\* exists(bucket, key) of the store client
Exists(st, path) == lstrip(_strip_protocol(path)) \in DOMAIN st

\* The empty write of open(path, "wb") closed at once: the object is there, empty
PutEmpty(st, path) ==
    LET key == lstrip(_strip_protocol(path))
    IN  [o \in (DOMAIN st) \cup {key} |-> IF o = key THEN 0 ELSE st[o]]

\* Two contents of the store, every object non-empty
StoreA == [o \in {Join(<<"a", "a", "a", "a">>), Join(<<"a", "a", "b">>),
                  Join(<<"a", "b", "a">>), Join(<<"b", "a">>)} |-> 1]
StoreB == [o \in {Join(<<"a", "a", "a", "b">>), Join(<<"a", "b", "b">>),
                  Join(<<"b", "b">>)} |-> 1]
InitialStores == {StoreA, StoreB}

----------------------------------------------------------------------------
(* The sequential caller of the cache operations *)

\* The longest path, in components, handed to invalidate_cache
MaxDepth == 4

\* The longest explicit list handed to _get_batch_delete_key_list
MaxPaths == 2

Names == {"a", "b"}

RECURSIVE Bodies(_)
Bodies(d) ==
    IF d = 0 THEN {<<>>}
    ELSE LET shorter == Bodies(d - 1)
         IN  shorter \cup {IF b = <<>> THEN <<n>> ELSE b \o <<Slash, n>> :
                              b \in shorter, n \in Names}

\* Paths with and without the scheme and a leading "/"
Prefixes == {<<>>, <<Slash>>, Protocol}
CachePaths == {pre \o b : pre \in Prefixes, b \in Bodies(MaxDepth)}

\* The directories that get listed, and so cached
ListedDirs == {<<>>, Join(<<"a">>), Join(<<"b">>), Join(<<"a", "a">>), Join(<<"a", "b">>),
               Join(<<"a", "a", "a">>), Join(<<"a", "a", "b">>),
               Join(<<"a", "a", "a", "a">>)}

\* The paths of bulk deletes
BatchPaths == {Join(<<"a", "a", "a">>), Protocol \o Join(<<"a", "a", "b">>),
               <<Slash>> \o Join(<<"a", "b">>), Join(<<"a">>), Join(<<"b", "a">>)}

RECURSIVE Heads(_)
Heads(n) ==
    IF n = 0 THEN {<<>>}
    ELSE LET shorter == Heads(n - 1)
         IN  shorter \cup {Append(h, p) : h \in shorter, p \in BatchPaths}

\* The explicit lists
ShortArgs == {[head |-> h, total |-> Len(h)] : h \in Heads(MaxPaths)}

\* The long lists: a head followed by its last path repeated, up to just
\* under, exactly and just over the ceiling
LongHeads == {<<Join(<<"a", "a", "a">>)>>,
              <<Protocol \o Join(<<"a", "a", "b">>), <<Slash>> \o Join(<<"a", "b">>)>>,
              <<Join(<<"a", "a", "a">>), Join(<<"b", "a">>)>>}
LongArgs == {[head |-> h, total |-> n] :
                h \in LongHeads, n \in {MaxBatch - 1, MaxBatch, MaxBatch + 1}}

\* A bulk delete's list: head, then its last path repeated up to total paths
PathList(arg) ==
    [i \in 1..arg.total |-> IF i <= Len(arg.head) THEN arg.head[i]
                            ELSE arg.head[Len(arg.head)]]

\* The sequential caller between two calls
Ready == [op |-> "new"]

Init ==
    /\ dircache = EmptyCache
    /\ store \in InitialStores
    /\ last = Ready
    /\ toucher = NoCaller
    /\ lister = NoCaller

\* A listing of dir by the sequential caller: served from the cache, or read
\* from the store and then cached
LsIn(dirs) ==
    /\ last = Ready
    /\ \E dir \in dirs :
        /\ dircache' = IF dir \in DOMAIN dircache THEN dircache
                       ELSE [k \in (DOMAIN dircache) \cup {dir} |->
                                IF k = dir THEN Children(store, dir) ELSE dircache[k]]
        /\ last' = [op |-> "ls", path |-> dir, hit |-> dir \in DOMAIN dircache]
        /\ UNCHANGED <<store, toucher, lister>>

Ls == LsIn(ListedDirs)

\* invalidate_cache(path), invalidate_cache()
InvalidateCache ==
    /\ last = Ready
    /\ \E path \in {None} \cup {<<p>> : p \in CachePaths} :
        /\ dircache' = invalidate_cache(dircache, path)
        /\ last' = [op |-> "invalidate", path |-> path, before |-> dircache]
        /\ UNCHANGED <<store, toucher, lister>>

\* _get_batch_delete_key_list(pathlist); last keeps the list in its short form
\* and, of the result, the outcome
BatchDeleteOf(args) ==
    /\ last = Ready
    /\ \E arg \in args :
        LET r == _get_batch_delete_key_list(dircache, PathList(arg))
        IN  /\ dircache' = r.cache
            /\ last' = [op |-> "batch", arg |-> arg, before |-> dircache,
                        outcome |-> r.outcome]
            /\ UNCHANGED <<store, toucher, lister>>

BatchDelete == BatchDeleteOf(ShortArgs)

\* The caller has its result (or its exception) and goes on to its next call
Return ==
    /\ last # Ready
    /\ last' = Ready
    /\ UNCHANGED <<dircache, store, toucher, lister>>

Next == Ls \/ InvalidateCache \/ BatchDelete \/ Return

Spec == Init /\ [][Next]_vars

----------------------------------------------------------------------------
(* Bulk deletes up to and over the ceiling, over a cache of two directories *)

BatchDirs == {Join(<<"a">>), Join(<<"a", "a">>)}

LsBatch == LsIn(BatchDirs)

BatchDeleteLong == BatchDeleteOf(ShortArgs \cup LongArgs)

NextBatch == LsBatch \/ BatchDeleteLong \/ Return

SpecBatch == Init /\ [][NextBatch]_vars

----------------------------------------------------------------------------
(* Properties of the listing cache, under Spec *)

\* The directory part of a normalised path: what precedes its last "/"
DirOf(norm) == IF Contains(norm, Slash) THEN SubSeq(norm, 1, LastSlash(norm) - 1) ELSE <<>>

\* The cache key of the parent directory of path
ParentKey(path) == DirOf(NormOf(path))

\* key is the directory norm itself or one of the directories above it, the
\* bucket included and the root not
OnChain(key, norm) == key # <<>> /\ (key = norm \/ StartsWith(norm, key \o <<Slash>>))

\* The last call was invalidate_cache(p) for a path p that is not the root
InvalidatedPath ==
    /\ last.op = "invalidate"
    /\ last.path # None
    /\ NormOf(last.path[1]) # <<>>

\* C1 (as first stated): after invalidate_cache(p) for a non-root p the cache
\* holds no entry for p, none for an ancestor directory of p and none for the root.
InvalidateClearsChainAndRoot ==
    InvalidatedPath =>
        \A key \in DOMAIN dircache :
            key # <<>> /\ ~OnChain(key, NormOf(last.path[1]))

\* C1 (amended): after invalidate_cache(p) for a non-root p the cache holds no
\* entry for p and none for an ancestor directory of p down to its bucket; the
\* root's entry is as it was before the call.
InvalidateClearsChain ==
    InvalidatedPath =>
        /\ \A key \in DOMAIN dircache : ~OnChain(key, NormOf(last.path[1]))
        /\ (<<>> \in DOMAIN dircache) <=> (<<>> \in DOMAIN last.before)
        /\ (<<>> \in DOMAIN dircache) => dircache[<<>>] = last.before[<<>>]

\* invalidate_cache("cos://a/a/a/a") has run on a cache that held "a/a/a/a",
\* "a/a/a", "a/a", "a" and the root
InvalidateDeepReached ==
    /\ InvalidatedPath
    /\ last.path[1] = Protocol \o Join(<<"a", "a", "a", "a">>)
    /\ {<<>>, Join(<<"a">>), Join(<<"a", "a">>), Join(<<"a", "a", "a">>),
        Join(<<"a", "a", "a", "a">>)} \subseteq DOMAIN last.before
    /\ DOMAIN dircache = (DOMAIN last.before) \ {Join(<<"a">>), Join(<<"a", "a">>),
                              Join(<<"a", "a", "a">>), Join(<<"a", "a", "a", "a">>)}

\* C2: invalidate_cache(p) leaves every entry whose key is neither p, nor an
\* ancestor of p, nor the root, in the cache with the listing it had.
InvalidateKeepsOthers ==
    InvalidatedPath =>
        \A key \in DOMAIN last.before :
            (key # <<>> /\ ~OnChain(key, NormOf(last.path[1]))) =>
                key \in DOMAIN dircache /\ dircache[key] = last.before[key]

\* invalidate_cache("/a/a") has run on a cache that held "a/a", its sibling
\* "a/b", its descendant "a/a/a" and the other bucket "b", and these three remain
InvalidateSiblingsReached ==
    /\ InvalidatedPath
    /\ last.path[1] = <<Slash>> \o Join(<<"a", "a">>)
    /\ Join(<<"a", "a">>) \in DOMAIN last.before
    /\ Join(<<"a", "a">>) \notin DOMAIN dircache
    /\ \A key \in {Join(<<"a", "b">>), Join(<<"a", "a", "a">>), Join(<<"b">>)} :
          /\ key \in DOMAIN last.before
          /\ key \in DOMAIN dircache
          /\ dircache[key] = last.before[key]
          /\ dircache[key] # {}

----------------------------------------------------------------------------
(* Properties of the bulk delete *)

\* The last call was a bulk delete that succeeded
BatchSucceeded == last.op = "batch" /\ last.outcome = "ok"

\* The cache keys of the parent directories of the paths of the last bulk delete
BatchParentKeys == {ParentKey(last.arg.head[i]) : i \in 1..Len(last.arg.head)}

\* The keys the last call removed from the cache
Removed == (DOMAIN last.before) \ (DOMAIN dircache)

\* C4 (as first stated): a successful bulk delete removes the entry of the parent
\* directory of every path, and no entry other than those parents' entries.
BatchRemovesExactlyParents ==
    BatchSucceeded =>
        /\ BatchParentKeys \cap DOMAIN dircache = {}
        /\ Removed \subseteq BatchParentKeys

\* C4 (amended): a successful bulk delete removes the entry of the parent
\* directory of every path; every entry it removes is the entry of such a
\* parent or of a directory above one, down to the bucket; every other entry
\* keeps its listing.
BatchRemovesParentChains ==
    BatchSucceeded =>
        /\ BatchParentKeys \cap DOMAIN dircache = {}
        /\ \A key \in Removed :
              \E parent \in BatchParentKeys : key = parent \/ OnChain(key, parent)
        /\ \A key \in DOMAIN dircache :
              key \in DOMAIN last.before /\ dircache[key] = last.before[key]

\* A bulk delete of "cos://a/a/b" and "/a/b" has removed their parents "a/a"
\* and "a" and left the entries of "a/a/b", "a/b" and the root
BatchParentsReached ==
    /\ BatchSucceeded
    /\ last.arg.head = <<Protocol \o Join(<<"a", "a", "b">>), <<Slash>> \o Join(<<"a", "b">>)>>
    /\ {<<>>, Join(<<"a">>), Join(<<"a", "a">>), Join(<<"a", "b">>), Join(<<"a", "a", "b">>)}
          \subseteq DOMAIN last.before
    /\ Removed = {Join(<<"a">>), Join(<<"a", "a">>)}

\* The distinct buckets of the paths of the last bulk delete
BatchBuckets == {split_path(last.arg.head[i])[1] : i \in 1..Len(last.arg.head)}

\* C3: a bulk delete over more than one bucket fails with ValueError; one over
\* more than 1000 paths fails with ValueError; one over exactly 1000 paths of
\* one bucket succeeds; a call that fails leaves the cache as it was.
BatchValidation ==
    last.op = "batch" =>
        /\ Cardinality(BatchBuckets) > 1 => last.outcome = "ValueError"
        /\ last.arg.total > MaxBatch => last.outcome = "ValueError"
        /\ (last.arg.total = MaxBatch /\ Cardinality(BatchBuckets) = 1) => last.outcome = "ok"
        /\ last.outcome # "ok" => dircache = last.before

\* A bulk delete of 1001 paths of one bucket has failed, on a cache that held
\* the parents of its paths, and the cache is as it was
BatchTooLongReached ==
    /\ last.op = "batch"
    /\ last.arg.total = MaxBatch + 1
    /\ Cardinality(BatchBuckets) = 1
    /\ last.outcome = "ValueError"
    /\ BatchParentKeys # {}
    /\ BatchParentKeys \subseteq DOMAIN last.before
    /\ dircache = last.before

----------------------------------------------------------------------------
(* touch, called by the sequential caller *)

\* A plausible slip: "and" in place of "or"
touch_and(cache, st, path, truncate) ==
    IF truncate /\ ~Exists(st, path)
    THEN [outcome |-> "ok",
          cache |-> invalidate_cache(cache, <<_parent(path)>>),
          store |-> PutEmpty(st, path)]
    ELSE [outcome |-> "NotImplementedError", cache |-> cache, store |-> st]

\* touch(path, truncate): the outcome, and the cache and the store it leaves
touch(cache, st, path, truncate) ==
    IF truncate \/ ~Exists(st, path)
    THEN [outcome |-> "ok",
          cache |-> invalidate_cache(cache, <<_parent(path)>>),
          store |-> PutEmpty(st, path)]
    ELSE [outcome |-> "NotImplementedError", cache |-> cache, store |-> st]

\* The paths touched and the directories listed around them
TouchPaths == {pre \o b : pre \in {<<>>, Protocol},
                          b \in {Join(<<"a", "a", "b">>), Join(<<"a", "b", "b">>),
                                 Join(<<"b", "a">>)}}
TouchDirs == {Join(<<"a">>), Join(<<"a", "a">>), Join(<<"a", "b">>), Join(<<"b">>)}

LsTouch == LsIn(TouchDirs)

Touch ==
    /\ last = Ready
    /\ \E path \in TouchPaths, truncate \in BOOLEAN :
        LET r == touch(dircache, store, path, truncate)
        IN  /\ dircache' = r.cache
            /\ store' = r.store
            /\ last' = [op |-> "touch", path |-> path, truncate |-> truncate,
                        before |-> dircache, stored |-> store, outcome |-> r.outcome]
            /\ UNCHANGED <<toucher, lister>>

NextTouch == LsTouch \/ Touch \/ Return

SpecTouch == Init /\ [][NextTouch]_vars

\* C5: touch(path, truncate) on a path that does not exist, with either value
\* of truncate, and on one that exists with truncate=True, removes the cache
\* entry of the parent directory and leaves an empty object at path; on a path
\* that exists with truncate=False it raises NotImplementedError and changes
\* neither the cache nor the store.
TouchOutcomes ==
    last.op = "touch" =>
        LET key == NormOf(last.path)
            existed == key \in DOMAIN last.stored
        IN  IF last.truncate \/ ~existed
            THEN /\ last.outcome = "ok"
                 /\ ParentKey(last.path) \notin DOMAIN dircache
                 /\ key \in DOMAIN store
                 /\ store[key] = 0
                 /\ \A o \in DOMAIN last.stored : o # key => store[o] = last.stored[o]
            ELSE /\ last.outcome = "NotImplementedError"
                 /\ dircache = last.before
                 /\ store = last.stored

\* touch("cos://a/b/b", truncate=False) has created the object, which did not
\* exist, while its parent "a/b" was cached
TouchCreatesReached ==
    /\ last.op = "touch"
    /\ last.path = Protocol \o Join(<<"a", "b", "b">>)
    /\ ~last.truncate
    /\ Join(<<"a", "b", "b">>) \notin DOMAIN last.stored
    /\ Join(<<"a", "b">>) \in DOMAIN last.before
    /\ Join(<<"a", "b">>) \notin DOMAIN dircache
    /\ store[Join(<<"a", "b", "b">>)] = 0

----------------------------------------------------------------------------
(* touch by one caller while another caller lists *)

\* touch(path, truncate) is entered: the condition "truncate or not
\* self.exists(path)" is evaluated
TouchEnter ==
    /\ toucher.pc = "idle"
    /\ \E path \in TouchPaths, truncate \in BOOLEAN :
          toucher' = [pc |-> IF truncate \/ ~Exists(store, path) THEN "invalidate"
                             ELSE "raise",
                      path |-> path, truncate |-> truncate]
    /\ UNCHANGED <<dircache, store, last, lister>>

\* self.invalidate_cache(self._parent(path))
TouchInvalidate ==
    /\ toucher.pc = "invalidate"
    /\ dircache' = invalidate_cache(dircache, <<_parent(toucher.path)>>)
    /\ toucher' = [toucher EXCEPT !.pc = "write"]
    /\ UNCHANGED <<store, last, lister>>

\* with self.open(path, "wb"): pass
TouchWrite ==
    /\ toucher.pc = "write"
    /\ store' = PutEmpty(store, toucher.path)
    /\ toucher' = [toucher EXCEPT !.pc = "returned"]
    /\ UNCHANGED <<dircache, last, lister>>

\* raise NotImplementedError
TouchRaise ==
    /\ toucher.pc = "raise"
    /\ toucher' = [toucher EXCEPT !.pc = "raised"]
    /\ UNCHANGED <<dircache, store, last, lister>>

\* The caller of touch goes on to its next call
TouchLeave ==
    /\ toucher.pc \in {"returned", "raised"}
    /\ toucher' = NoCaller
    /\ UNCHANGED <<dircache, store, last, lister>>

\* A listing of dir is entered: the cache is read
ListEnter ==
    /\ lister.pc = "idle"
    /\ \E dir \in TouchDirs :
          lister' = [pc |-> IF dir \in DOMAIN dircache THEN "hit" ELSE "fetch", dir |-> dir]
    /\ UNCHANGED <<dircache, store, last, toucher>>

\* The cache held the directory: its listing is returned
ListHit ==
    /\ lister.pc = "hit"
    /\ lister' = NoCaller
    /\ UNCHANGED <<dircache, store, last, toucher>>

\* The cache did not hold the directory: the store is asked
ListFetch ==
    /\ lister.pc = "fetch"
    /\ lister' = [pc |-> "populate", dir |-> lister.dir,
                  entries |-> Children(store, lister.dir)]
    /\ UNCHANGED <<dircache, store, last, toucher>>

\* The store's answer is cached and returned
ListPopulate ==
    /\ lister.pc = "populate"
    /\ dircache' = [k \in (DOMAIN dircache) \cup {lister.dir} |->
                       IF k = lister.dir THEN lister.entries ELSE dircache[k]]
    /\ lister' = NoCaller
    /\ UNCHANGED <<store, last, toucher>>

NextConc ==
    \/ TouchEnter
    \/ TouchInvalidate
    \/ TouchWrite
    \/ TouchRaise
    \/ TouchLeave
    \/ ListEnter
    \/ ListHit
    \/ ListFetch
    \/ ListPopulate

SpecConc == Init /\ [][NextConc]_vars

\* C10: when touch(p) has returned, the cache holds no entry for the parent
\* directory of p that omits p, however the listing of another caller
\* interleaves with it.
TouchLeavesNoStaleListing ==
    toucher.pc = "returned" =>
        LET parent == ParentKey(toucher.path)
        IN  parent \in DOMAIN dircache => NormOf(toucher.path) \in dircache[parent]

====
